---- MODULE Spec2Model ----
(***************************************************************************)
(* A model of the valita validation engine (src/src/index.ts): schema      *)
(* nodes, their compiled validation functions, the issue tree and its      *)
(* flattening, the union dispatcher and the parse entry point.             *)
(*                                                                         *)
(* JavaScript values are records of one shape, so that any two of them can *)
(* be compared: t is the runtime type, n the number, s the string, e the   *)
(* elements of an array, o the entries (key, value) of an object in the    *)
(* object's own key order.                                                 *)
(***************************************************************************)
EXTENDS Integers, Sequences, FiniteSets, TLC

VARIABLES sid, input, mode, pc, out, calls, out2, issues, message, held

vars == <<sid, input, mode, pc, out, calls, out2, issues, message, held>>

----------------------------------------------------------------------------
(* Values *)

Val(t, n, s, e, o) == [t |-> t, n |-> n, s |-> s, e |-> e, o |-> o]
Num(n) == Val("number", n, "", <<>>, <<>>)
Str(s) == Val("string", 0, s, <<>>, <<>>)
Undef == Val("undefined", 0, "", <<>>, <<>>)
Null == Val("null", 0, "", <<>>, <<>>)
Arr(e) == Val("array", 0, "", e, <<>>)
Obj(o) == Val("object", 0, "", <<>>, o)
Entry(k, v) == [k |-> k, v |-> v]

\* const Nothing: unique symbol = Symbol()
Nothing == Val("symbol", 0, "", <<>>, <<>>)

\* Keys of a path: an object key (a string) or an array index (a number).
KeyS(s) == [kt |-> "string", s |-> s, n |-> 0]
KeyN(i) == [kt |-> "number", s |-> "", n |-> i]

HasKey(obj, key) == \E i \in 1..Len(obj.o) : obj.o[i].k = key
Get(obj, key) ==
  IF HasKey(obj, key)
  THEN obj.o[CHOOSE i \in 1..Len(obj.o) : obj.o[i].k = key].v
  ELSE Undef
Put(obj, key, v) ==
  IF HasKey(obj, key)
  THEN Obj([i \in 1..Len(obj.o) |->
             IF obj.o[i].k = key THEN Entry(key, v) ELSE obj.o[i]])
  ELSE Obj(Append(obj.o, Entry(key, v)))
KeysOf(obj) == {obj.o[i].k : i \in 1..Len(obj.o)}

isObject(v) == v.t = "object"

toBaseType(v) == v.t

----------------------------------------------------------------------------
(* Results and issue trees *)

True == [code |-> "true"]
Ok(v) == [code |-> "ok", value |-> v]
NoTree == [code |-> "undefined"]

IsOk(r) == r.code = "true" \/ r.code = "ok"

invalid_type(expected, path) ==
  [code |-> "invalid_type", expected |-> expected, path |-> path]
invalid_literal(expected, path) ==
  [code |-> "invalid_literal", expected |-> expected, path |-> path]
missing_key(key) == [code |-> "missing_key", key |-> key, path |-> <<>>]
unrecognized_key(key) == [code |-> "unrecognized_key", key |-> key, path |-> <<>>]
invalid_union(tree) == [code |-> "invalid_union", tree |-> tree, path |-> <<>>]
custom_error(error) == [code |-> "custom_error", error |-> error, path |-> <<>>]

\* type CustomError = undefined | string | {message?, path?}
NoError == [kind |-> "undefined", message |-> "", hasMessage |-> FALSE, path |-> <<>>]
StringError(m) == [kind |-> "string", message |-> m, hasMessage |-> TRUE, path |-> <<>>]
ObjectError(m, p) == [kind |-> "object", message |-> m, hasMessage |-> TRUE, path |-> p]

joinIssues(left, right) ==
  IF right.code # "undefined"
  THEN [code |-> "join", left |-> left, right |-> right]
  ELSE left

prependPath(key, tree) == [code |-> "prepend", key |-> key, tree |-> tree]

----------------------------------------------------------------------------
(* Schema nodes *)

NoType == [name |-> "none"]
nothing == [name |-> "nothing"]
unknown == [name |-> "unknown"]
number == [name |-> "number"]
string == [name |-> "string"]
undefined_ == [name |-> "undefined"]
null_ == [name |-> "null"]
literal(value) == [name |-> "literal", value |-> value]
array(item) == [name |-> "array", item |-> item]
union(options) == [name |-> "union", options |-> options]
optional(type) == [name |-> "optional", type |-> type]
\* object(obj): the shape with its keys in declaration order, no rest type
object(keys, shape) ==
  [name |-> "object", keys |-> keys, shape |-> shape, restType |-> NoType]
rest(type, restType) == [type EXCEPT !.restType = restType]
assert(type, func, error) ==
  [name |-> "transform", transformed |-> type, kind |-> "assert",
   func |-> func, error |-> error]
apply(type, func) ==
  [name |-> "transform", transformed |-> type, kind |-> "apply",
   func |-> func, error |-> NoError]
chain(type, func) ==
  [name |-> "transform", transformed |-> type, kind |-> "chain",
   func |-> func, error |-> NoError]


----------------------------------------------------------------------------
(* User callbacks: the functions the schemas of this model hand to         *)
(* assert, apply and chain.  They are pure.                                *)

Predicate(func, v) ==
  CASE func = "isOne" -> v = Num(1)
    [] func = "isA" -> v = Str("a")
    [] func = "never" -> FALSE

MapFunc(func, v) ==
  CASE func = "inc" -> IF v.t = "number" THEN Num(v.n + 1) ELSE v
    [] func = "toL" -> Str("L")
    [] func = "toS" -> Str("S")

\* func returns ok(value) or err(error)
ChainFunc(func, v) ==
  CASE func = "onlyOne" ->
         IF v = Num(1)
         THEN [ok |-> TRUE, value |-> v, error |-> NoError]
         ELSE [ok |-> FALSE, value |-> Undef, error |-> StringError("not one")]

----------------------------------------------------------------------------
(* Terminal classification *)

RECURSIVE toTerminals(_)
RECURSIVE TerminalsOfAll(_, _)

\* the terminals of options[i..], in order
TerminalsOfAll(options, i) ==
  IF i > Len(options) THEN <<>>
  ELSE toTerminals(options[i]) \o TerminalsOfAll(options, i + 1)

toTerminals(type) ==
  CASE type.name = "union" -> TerminalsOfAll(type.options, 1)
    [] type.name = "optional" -> <<nothing, undefined_>> \o toTerminals(type.type)
    [] type.name = "transform" -> toTerminals(type.transformed)
    [] OTHER -> <<type>>

isOptional(type) ==
  \E i \in 1..Len(toTerminals(type)) : toTerminals(type)[i].name = "nothing"

----------------------------------------------------------------------------
(* Compiled validation functions *)

PASS == 0
STRICT == 1
STRIP == 2

RECURSIVE Func(_, _, _)
RECURSIVE ObjectRestLoop(_, _, _, _, _)
RECURSIVE ObjectKeysLoop(_, _, _, _, _)
RECURSIVE ArrayLoop(_, _, _, _, _)
RECURSIVE UnionFunc(_, _, _)
RECURSIVE After(_, _, _)

\* the user function wrapped by assert, apply or chain
transformFunc(type, v) ==
  CASE type.kind = "assert" ->
         IF Predicate(type.func, v) THEN True ELSE custom_error(type.error)
    [] type.kind = "apply" -> Ok(MapFunc(type.func, v))
    [] type.kind = "chain" ->
         LET r == ChainFunc(type.func, v)
         IN IF r.ok THEN Ok(r.value) ELSE custom_error(r.error)

TransformFunc(type, v, md) ==
  LET r == Func(type.transformed, v, md)
  IN IF ~IsOk(r) THEN r
     ELSE transformFunc(type, IF r.code = "true" THEN v ELSE r.value)

OptionalFunc(type, v, md) ==
  IF v = Nothing \/ v = Undef THEN True ELSE Func(type.type, v, md)

LiteralFunc(type, v) ==
  IF v = type.value THEN True ELSE invalid_literal(<<type.value>>, <<>>)

\* NumberType, StringType, UndefinedType, NullType: a typeof check
PrimitiveFunc(type, v) ==
  IF v.t = type.name THEN True ELSE invalid_type(<<type.name>>, <<>>)

NothingFunc(v) == IF v = Nothing THEN True ELSE invalid_type(<<>>, <<>>)

\* shapeTemplate: every declared key, in declaration order, set to undefined
shapeTemplate(type) ==
  Obj([i \in 1..Len(type.keys) |-> Entry(type.keys[i], Undef)])

knownKeys(type) == {type.keys[i] : i \in 1..Len(type.keys)}

hasRest(type) == type.restType.name # "none"

\* const template = pass || rest ? obj : shapeTemplate
template(type, obj, md) ==
  IF md = PASS \/ hasRest(type) THEN obj ELSE shapeTemplate(type)

\* The state of one run of the object function: ret is the early return
\* (NoTree while there is none), copied is (output !== obj).
\* obj is the input object as the run leaves it: output is that very object
\* until a copy is made, and a write to output is then a write to obj.
ObjectState(obj) ==
  [ret |-> NoTree, stop |-> FALSE, output |-> obj, copied |-> FALSE,
   issueTree |-> NoTree, obj |-> obj]

\* the copy never made: output stays the input itself
copyOnceNever(st, tpl) == st

\* if (output === obj) { output = { ...template } }
copyOnce(st, tpl) ==
  IF st.copied THEN st ELSE [st EXCEPT !.output = tpl, !.copied = TRUE]

\* output[key] = value
write(st, key, value) ==
  [st EXCEPT !.output = Put(@, key, value),
             !.obj = IF st.copied THEN @ ELSE Put(@, key, value)]

\* func(obj[key], mode) has run on the value at key: the value is an object
\* or array the input still refers to, left as the call left it
called(st, key, type, value, md) ==
  IF value.t \in {"object", "array"}
  THEN [st EXCEPT !.obj = Put(@, key, After(type, value, md))]
  ELSE st

\* the first loop, once rest(obj[key], mode) has answered r
RestResult(type, obj, md, key, r, st) ==
  IF r.code = "true" THEN st
  ELSE IF r.code = "ok"
  THEN write(copyOnce(st, template(type, obj, md)), key, r.value)
  ELSE [st EXCEPT
          !.issueTree = joinIssues(prependPath(KeyS(key), r), st.issueTree)]

\* the second loop, once funcs[i](value, mode) has answered r
KeyResult(type, obj, md, key, value, r, st) ==
  IF r.code = "ok"
  THEN write(copyOnce(st, template(type, obj, md)), key, r.value)
  ELSE IF r.code # "true"
  THEN [st EXCEPT
          !.issueTree = joinIssues(prependPath(KeyS(key), r), st.issueTree)]
  ELSE IF md = STRIP /\ st.copied
  THEN write(st, key, value)
  ELSE st

\* one unknown key of the first loop (for (const key in obj))
ObjectRestStep(type, obj, md, i, st) ==
  LET key == obj.o[i].k IN
  IF key \in knownKeys(type) THEN st
  ELSE IF md = STRICT
  THEN [st EXCEPT !.ret = unrecognized_key(key), !.stop = TRUE]
  ELSE IF md = STRIP
  THEN [st EXCEPT !.output = template(type, obj, md), !.copied = TRUE,
                  !.stop = TRUE]
  ELSE IF hasRest(type)
  THEN RestResult(type, obj, md, key, Func(type.restType, obj.o[i].v, md),
                  called(st, key, type.restType, obj.o[i].v, md))
  ELSE st

ObjectRestLoop(type, obj, md, i, st) ==
  IF i > Len(obj.o) \/ st.stop THEN st
  ELSE ObjectRestLoop(type, obj, md, i + 1, ObjectRestStep(type, obj, md, i, st))

\* one declared key of the second loop (for (let i = 0; i < keys.length; i++))
ObjectKeyStep(type, obj, md, i, st) ==
  LET key == type.keys[i]
      absent == Get(obj, key) = Undef /\ ~HasKey(obj, key)
      value == IF absent THEN Nothing ELSE Get(obj, key)
  IN
  IF absent /\ ~isOptional(type.shape[key])
  THEN [st EXCEPT !.ret = missing_key(key)]
  ELSE KeyResult(type, obj, md, key, value, Func(type.shape[key], value, md),
                 called(st, key, type.shape[key], value, md))

ObjectKeysLoop(type, obj, md, i, st) ==
  IF i > Len(type.keys) \/ st.ret.code # "undefined" THEN st
  ELSE ObjectKeysLoop(type, obj, md, i + 1, ObjectKeyStep(type, obj, md, i, st))

\* the two loops of the object function, on an object
ObjectRun(type, obj, md) ==
  LET st1 == IF md = STRICT \/ md = STRIP \/ hasRest(type)
             THEN ObjectRestLoop(type, obj, md, 1, ObjectState(obj))
             ELSE ObjectState(obj)
  IN IF st1.ret.code # "undefined" THEN st1
     ELSE ObjectKeysLoop(type, obj, md, 1, st1)

ObjectFunc(type, obj, md) ==
  IF ~isObject(obj) THEN invalid_type(<<"object">>, <<>>)
  ELSE LET st == ObjectRun(type, obj, md) IN
       IF st.ret.code # "undefined" THEN st.ret
       ELSE IF st.issueTree.code # "undefined" THEN st.issueTree
       ELSE IF ~st.copied THEN True
       ELSE Ok(st.output)

\* arr is the input array as the run leaves it
ArrayState(arr) ==
  [output |-> arr, copied |-> FALSE, issueTree |-> NoTree, arr |-> arr]

\* output[i] = value: output is arr itself until the copy is made
writeAt(st, i, value) ==
  [st EXCEPT !.output = Arr([@.e EXCEPT ![i] = value]),
             !.arr = IF st.copied THEN @ ELSE Arr([@.e EXCEPT ![i] = value])]

\* func(arr[i], mode) has run on the element at i
calledAt(st, i, type, value, md) ==
  IF value.t \in {"object", "array"}
  THEN [st EXCEPT !.arr = Arr([@.e EXCEPT ![i] = After(type, value, md)])]
  ELSE st

\* the loop of the array function, once func(arr[i], mode) has answered r
ItemResult(arr, i, r, st) ==
  IF r.code = "true" THEN st
  ELSE IF r.code = "ok"
  THEN writeAt(copyOnce(st, arr), i, r.value)
  ELSE [st EXCEPT
          !.issueTree = joinIssues(prependPath(KeyN(i - 1), r), st.issueTree)]

\* one element of the array function's loop; indices of the source are i - 1
ArrayStep(type, arr, md, i, st) ==
  ItemResult(arr, i, Func(type.item, arr.e[i], md),
             calledAt(st, i, type.item, arr.e[i], md))

ArrayLoop(type, arr, md, i, st) ==
  IF i > Len(arr.e) THEN st
  ELSE ArrayLoop(type, arr, md, i + 1, ArrayStep(type, arr, md, i, st))

ArrayFunc(type, arr, md) ==
  IF arr.t # "array" THEN invalid_type(<<"array">>, <<>>)
  ELSE LET st == ArrayLoop(type, arr, md, 1, ArrayState(arr)) IN
       IF st.issueTree.code # "undefined" THEN st.issueTree
       ELSE IF ~st.copied THEN True
       ELSE Ok(st.output)

\* dedup, difference and the Maps of the dispatcher: a Map is the sequence
\* of its entries [key, val] in insertion order.
RECURSIVE dedup(_)
dedup(arr) ==
  IF Len(arr) = 0 THEN <<>>
  ELSE LET init == dedup(SubSeq(arr, 1, Len(arr) - 1))
           last == arr[Len(arr)]
       IN IF \E i \in 1..Len(init) : init[i] = last THEN init
          ELSE Append(init, last)

difference(arr1, arr2) ==
  SelectSeq(arr1, LAMBDA x : ~\E i \in 1..Len(arr2) : arr2[i] = x)

MapHas(m, k) == \E i \in 1..Len(m) : m[i].key = k
MapGet(m, k) == m[CHOOSE i \in 1..Len(m) : m[i].key = k].val
MapSet(m, k, v) ==
  IF MapHas(m, k)
  THEN [i \in 1..Len(m) |-> IF m[i].key = k THEN [key |-> k, val |-> v] ELSE m[i]]
  ELSE Append(m, [key |-> k, val |-> v])
MapDelete(m, k) == SelectSeq(m, LAMBDA x : x.key # k)
MapGetOr(m, k) == IF MapHas(m, k) THEN MapGet(m, k) ELSE <<>>
SetAdd(set, x) == IF \E i \in 1..Len(set) : set[i] = x THEN set ELSE Append(set, x)

\* flatten(t): one {root, terminal} per terminal of each {root, type}
Tagged(root, ts) == [j \in 1..Len(ts) |-> [root |-> root, terminal |-> ts[j]]]

RECURSIVE flatten(_)
flatten(t) ==
  IF Len(t) = 0 THEN <<>>
  ELSE flatten(SubSeq(t, 1, Len(t) - 1)) \o
       Tagged(t[Len(t)].root, toTerminals(t[Len(t)].type))

\* The tables a matcher is built from: t.forEach(...) of createUnionMatcher,
\* and the loop over the shapes of createObjectMatchers (where a "root" is
\* the index of a shape).
Tables == [literals |-> <<>>, types |-> <<>>, allTypes |-> <<>>,
           unknowns |-> <<>>, nothings |-> <<>>]

Classify(tb, root, terminal) ==
  IF terminal.name = "nothing"
  THEN [tb EXCEPT !.nothings = Append(@, root)]
  ELSE IF terminal.name = "unknown"
  THEN [tb EXCEPT !.unknowns = Append(@, root)]
  ELSE IF terminal.name = "literal"
  THEN [tb EXCEPT
          !.literals = MapSet(@, terminal.value,
                              Append(MapGetOr(@, terminal.value), root)),
          !.allTypes = SetAdd(@, toBaseType(terminal.value))]
  ELSE [tb EXCEPT
          !.types = MapSet(@, terminal.name,
                           Append(MapGetOr(@, terminal.name), root)),
          !.allTypes = SetAdd(@, terminal.name)]

RECURSIVE ClassifyAll(_, _)
ClassifyAll(t, n) ==
  IF n = 0 THEN Tables
  ELSE Classify(ClassifyAll(t, n - 1), t[n].root, t[n].terminal)

\* literals.forEach: a literal whose base type has a types entry is moved to
\* the end of that entry and deleted from literals
RECURSIVE MergeLiterals(_, _, _)
MergeLiterals(tb, lits, i) ==
  IF i > Len(lits) THEN tb
  ELSE LET value == lits[i].key
           bt == toBaseType(value)
       IN IF MapHas(tb.types, bt)
          THEN MergeLiterals(
                 [tb EXCEPT !.types = MapSet(@, bt, MapGet(@, bt) \o lits[i].val),
                            !.literals = MapDelete(@, value)],
                 lits, i + 1)
          ELSE MergeLiterals(tb, lits, i + 1)

\* unknowns = dedup(unknowns) ... literals.set(value, difference(...)):
\* tb is the tables classified, u the unknowns, m the tables merged
Cleaned(mp, u) ==
  [i \in 1..Len(mp) |-> [key |-> mp[i].key, val |-> difference(dedup(mp[i].val), u)]]

NormalizeWith(tb, u, m) ==
  [m EXCEPT !.unknowns = u, !.nothings = dedup(tb.nothings),
            !.types = Cleaned(m.types, u), !.literals = Cleaned(m.literals, u)]

Normalize(tb) ==
  NormalizeWith(tb, dedup(tb.unknowns), MergeLiterals(tb, tb.literals, 1))

MatcherOf(tb, path) ==
  [literals |-> tb.literals, types |-> tb.types, allTypes |-> tb.allTypes,
   unknowns |-> tb.unknowns, nothings |-> tb.nothings,
   invalidType |-> invalid_type(tb.allTypes, path),
   invalidLiteral |->
     invalid_literal([i \in 1..Len(tb.literals) |-> tb.literals[i].key], path)]

\* createUnionMatcher(t, path): the tables and the two prepared issues
createUnionMatcher(t, path) == MatcherOf(Normalize(ClassifyAll(t, Len(t))), path)

\* The state of one run of a matcher: ret is the first successful result
\* (NoTree while there is none), calls the roots invoked so far.
MatcherState == [ret |-> NoTree, issueTree |-> NoTree, count |-> 0, calls |-> <<>>]

\* one trial: const r = roots[i].func(rootValue, mode); ...
TryOne(st, root, r) ==
  IF IsOk(r)
  THEN [st EXCEPT !.ret = r, !.calls = Append(@, root)]
  ELSE [st EXCEPT !.issueTree = joinIssues(r, st.issueTree),
                  !.count = @ + 1, !.calls = Append(@, root)]

\* for (let i = 0; i < roots.length; i++) { ... }, left at the first success
RECURSIVE TryAll(_, _, _, _, _, _)
TryAll(options, roots, rootValue, md, i, st) ==
  IF i > Len(roots) \/ st.ret.code # "undefined" THEN st
  ELSE TryAll(options, roots, rootValue, md, i + 1,
              TryOne(st, roots[i], Func(options[roots[i]], rootValue, md)))

\* const options = literals.get(value) || types.get(type)
Bucket(m, value) ==
  IF MapHas(m.literals, value) THEN MapGet(m.literals, value)
  ELSE MapGetOr(m.types, toBaseType(value))

\* the end of the matcher with count > 2 for count > 1
MatcherResultCountOff(m, st) ==
  IF st.ret.code # "undefined" THEN [r |-> st.ret, calls |-> st.calls]
  ELSE IF st.issueTree.code # "undefined"
  THEN [r |-> IF st.count > 2 THEN invalid_union(st.issueTree) ELSE st.issueTree,
        calls |-> st.calls]
  ELSE [r |-> m.invalidLiteral, calls |-> st.calls]

\* what the matcher returns once its loops have run
MatcherResult(m, st) ==
  IF st.ret.code # "undefined" THEN [r |-> st.ret, calls |-> st.calls]
  ELSE IF st.issueTree.code # "undefined"
  THEN [r |-> IF st.count > 1 THEN invalid_union(st.issueTree) ELSE st.issueTree,
        calls |-> st.calls]
  ELSE [r |-> m.invalidLiteral, calls |-> st.calls]

\* the function createUnionMatcher returns, as {r, calls}
MatcherRun(m, options, rootValue, value, md) ==
  IF value # Nothing
  THEN IF /\ Len(m.unknowns) = 0
          /\ ~\E i \in 1..Len(m.allTypes) : m.allTypes[i] = toBaseType(value)
       THEN [r |-> m.invalidType, calls |-> <<>>]
       ELSE MatcherResult(m,
              TryAll(options, m.unknowns, rootValue, md, 1,
                     TryAll(options, Bucket(m, value), rootValue, md, 1,
                            MatcherState)))
  ELSE MatcherResult(m, TryAll(options, m.nothings, rootValue, md, 1, MatcherState))

\* findCommonKeys(rs): the keys every shape declares, in first-seen order
NewKeys(before, keys) ==
  before \o SelectSeq(keys, LAMBDA k : ~\E i \in 1..Len(before) : before[i] = k)

RECURSIVE AllKeys(_, _)
AllKeys(shapes, n) ==
  IF n = 0 THEN <<>> ELSE NewKeys(AllKeys(shapes, n - 1), shapes[n].keys)

findCommonKeys(shapes) ==
  SelectSeq(AllKeys(shapes, Len(shapes)),
            LAMBDA k : \A i \in 1..Len(shapes) :
                         \E j \in 1..Len(shapes[i].keys) : shapes[i].keys[j] = k)

\* the {root: i, terminal} of every terminal of shapes[i][key], i <= n
RECURSIVE ShapeTerminals(_, _, _)
ShapeTerminals(shapes, key, n) ==
  IF n = 0 THEN <<>>
  ELSE ShapeTerminals(shapes, key, n - 1) \o
       Tagged(n, toTerminals(shapes[n].shape[key]))

\* the checks of the filter with found.length >= 1 for found.length > 1
DiscriminantOkOffByOne(tb) ==
  IF Len(tb.nothings) > 1 THEN FALSE
  ELSE IF Len(tb.unknowns) > 1 THEN FALSE
  ELSE IF Len(tb.unknowns) = 1
  THEN Len(tb.literals) = 0 /\ Len(tb.types) = 0
  ELSE /\ \A i \in 1..Len(tb.literals) : Len(tb.literals[i].val) < 1
       /\ \A i \in 1..Len(tb.types) : Len(tb.types[i].val) < 1

\* the checks that end the filter of createObjectMatchers
DiscriminantOk(tb) ==
  IF Len(tb.nothings) > 1 THEN FALSE
  ELSE IF Len(tb.unknowns) > 1 THEN FALSE
  ELSE IF Len(tb.unknowns) = 1
  THEN Len(tb.literals) = 0 /\ Len(tb.types) = 0
  ELSE /\ \A i \in 1..Len(tb.literals) : Len(tb.literals[i].val) <= 1
       /\ \A i \in 1..Len(tb.types) : Len(tb.types[i].val) <= 1

ClassifyShapes(st) == Normalize(ClassifyAll(st, Len(st)))

\* the filter of createObjectMatchers: is key a discriminant of the shapes
isDiscriminant(shapes, key) ==
  DiscriminantOk(ClassifyShapes(ShapeTerminals(shapes, key, Len(shapes))))

\* the root of the first terminal "nothing" of f, 0 when there is none
FirstNothing(f) ==
  IF \E i \in 1..Len(f) : f[i].terminal.name = "nothing"
  THEN f[CHOOSE i \in 1..Len(f) :
           /\ f[i].terminal.name = "nothing"
           /\ \A j \in 1..(i - 1) : f[j].terminal.name # "nothing"].root
  ELSE 0

ObjectsOf(t) == SelectSeq(t, LAMBDA x : x.terminal.name = "object")
ShapesOf(objects) == [i \in 1..Len(objects) |-> objects[i].terminal]
KeyTypes(objects, key) ==
  [i \in 1..Len(objects) |->
     [root |-> objects[i].root, type |-> objects[i].terminal.shape[key]]]

ObjectMatcher(key, f) ==
  [key |-> key, nothing |-> FirstNothing(f),
   matcher |-> createUnionMatcher(f, <<KeyS(key)>>)]

ObjectMatchers(objects, discriminants) ==
  [d \in 1..Len(discriminants) |->
     ObjectMatcher(discriminants[d], flatten(KeyTypes(objects, discriminants[d])))]

Discriminants(shapes) ==
  SelectSeq(findCommonKeys(shapes), LAMBDA k : isDiscriminant(shapes, k))

\* createObjectMatchers(t): one {key, nothing, matcher} per discriminant;
\* nothing is the root that tolerates the key's absence, 0 when there is none
createObjectMatchers(t) ==
  ObjectMatchers(ObjectsOf(t), Discriminants(ShapesOf(ObjectsOf(t))))

\* the roots of a union: flatten(this.options.map((root) => ({root, type: root})))
flattened(type) ==
  flatten([i \in 1..Len(type.options) |-> [root |-> i, type |-> type.options[i]]])

\* the function UnionType.genFunc returns, as {r, calls}: calls lists the
\* alternatives (indices of options) whose function was invoked, in order
UnionDispatch(type, objects, base, v, md) ==
  IF Len(objects) > 0 /\ isObject(v)
  THEN IF Get(v, objects[1].key) = Undef /\ ~HasKey(v, objects[1].key)
       THEN IF objects[1].nothing # 0
            THEN [r |-> Func(type.options[objects[1].nothing], Nothing, md),
                  calls |-> <<objects[1].nothing>>]
            ELSE [r |-> missing_key(objects[1].key), calls |-> <<>>]
       ELSE MatcherRun(objects[1].matcher, type.options, v,
                       Get(v, objects[1].key), md)
  ELSE MatcherRun(base, type.options, v, v, md)

UnionFunc(type, v, md) ==
  UnionDispatch(type, createObjectMatchers(flattened(type)),
                createUnionMatcher(flattened(type), <<>>), v, md)

\* the alternatives of calls have run on v, one after the other
RECURSIVE AfterCalls(_, _, _, _, _)
AfterCalls(type, roots, v, md, n) ==
  IF n = 0 THEN v
  ELSE After(type.options[roots[n]], AfterCalls(type, roots, v, md, n - 1), md)

AfterAll(type, roots, v, md) == AfterCalls(type, roots, v, md, Len(roots))

\* the object or array v, as type.func(v, md) leaves it: the functions write
\* through output only, and the callbacks of transforms write nothing
After(type, v, md) ==
  CASE type.name = "object" ->
         IF isObject(v) THEN ObjectRun(type, v, md).obj ELSE v
    [] type.name = "array" ->
         IF v.t = "array" THEN ArrayLoop(type, v, md, 1, ArrayState(v)).arr
         ELSE v
    [] type.name = "union" ->
         AfterAll(type, UnionFunc(type, v, md).calls, v, md)
    [] type.name = "optional" ->
         IF v = Nothing \/ v = Undef THEN v ELSE After(type.type, v, md)
    [] type.name = "transform" -> After(type.transformed, v, md)
    [] OTHER -> v

Func(type, v, md) ==
  CASE type.name = "object" -> ObjectFunc(type, v, md)
    [] type.name = "array" -> ArrayFunc(type, v, md)
    [] type.name = "union" -> UnionFunc(type, v, md).r
    [] type.name = "optional" -> OptionalFunc(type, v, md)
    [] type.name = "transform" -> TransformFunc(type, v, md)
    [] type.name = "literal" -> LiteralFunc(type, v)
    [] type.name = "nothing" -> NothingFunc(v)
    [] type.name = "unknown" -> True
    [] OTHER -> PrimitiveFunc(type, v)

----------------------------------------------------------------------------
(* The error surface *)

RECURSIVE _collectIssues(_, _)

\* _collectIssues without the path.pop() that ends a prepend node
_collectIssuesNoPop(tree, st) ==
  IF tree.code = "join"
  THEN _collectIssues(tree.right, _collectIssues(tree.left, st))
  ELSE IF tree.code = "prepend"
  THEN _collectIssues(tree.tree, [st EXCEPT !.path = Append(@, tree.key)])
  ELSE [st EXCEPT !.issues =
          Append(@, [tree EXCEPT !.path =
                       st.path \o tree.path \o
                       (IF tree.code = "custom_error" /\ tree.error.kind = "object"
                        THEN tree.error.path ELSE <<>>)])]

\* st is the pair the source threads through the recursion: the mutable
\* path stack and the issues collected so far
_collectIssues(tree, st) ==
  IF tree.code = "join"
  THEN _collectIssues(tree.right, _collectIssues(tree.left, st))
  ELSE IF tree.code = "prepend"
  THEN LET sub == _collectIssues(tree.tree, [st EXCEPT !.path = Append(@, tree.key)])
       IN [sub EXCEPT !.path = SubSeq(@, 1, Len(@) - 1)]
  ELSE LET suffix == IF tree.code = "custom_error" /\ tree.error.kind = "object"
                     THEN tree.error.path ELSE <<>>
           finalPath == st.path \o tree.path \o suffix
       IN [st EXCEPT !.issues = Append(@, [tree EXCEPT !.path = finalPath])]

collectIssues(tree) == _collectIssues(tree, [path |-> <<>>, issues |-> <<>>]).issues

\* Texts are sequences of pieces; their concatenation is the string.
RECURSIVE joinWith(_, _)
joinWith(list, sep) ==
  IF Len(list) = 0 THEN <<>>
  ELSE IF Len(list) = 1 THEN list[1]
  ELSE list[1] \o <<sep>> \o joinWith(Tail(list), sep)

orList(list) ==
  IF Len(list) = 0 THEN <<"nothing">>
  ELSE IF Len(list) < 2 THEN list[Len(list)]
  ELSE joinWith(SubSeq(list, 1, Len(list) - 1), ", ") \o <<" or ">> \o list[Len(list)]

\* JSON.stringify of a string or a number (the model has no bigint)
formatLiteral(value) ==
  IF value.t = "string" THEN <<"\"", value.s, "\"">> ELSE <<ToString(value.n)>>

formatKey(key) ==
  IF key.kt = "string" THEN <<"\"", key.s, "\"">> ELSE <<ToString(key.n)>>

\* the get message() of ValitaError, from the issue list
messageOf(list) ==
  LET issue == list[1]
      description ==
        CASE issue.code = "invalid_type" ->
               <<"expected ">> \o
               orList([i \in 1..Len(issue.expected) |-> <<issue.expected[i]>>])
          [] issue.code = "invalid_literal" ->
               <<"expected ">> \o
               orList([i \in 1..Len(issue.expected) |->
                         formatLiteral(issue.expected[i])])
          [] issue.code = "missing_key" ->
               <<"missing key ">> \o formatKey(KeyS(issue.key))
          [] issue.code = "unrecognized_key" ->
               <<"unrecognized key ">> \o formatKey(KeyS(issue.key))
          [] issue.code = "custom_error" ->
               IF issue.error.kind = "string" THEN <<issue.error.message>>
               ELSE IF /\ issue.error.kind = "object"
                       /\ issue.error.hasMessage
                       /\ issue.error.message = "string"
               THEN <<issue.error.message>>
               ELSE <<"validation failed">>
          [] OTHER -> <<"validation failed">>
  IN [code |-> issue.code,
      path |-> joinWith([i \in 1..Len(issue.path) |->
                           IF issue.path[i].kt = "string"
                           THEN <<issue.path[i].s>>
                           ELSE <<ToString(issue.path[i].n)>>], "."),
      description |-> description]

----------------------------------------------------------------------------
(* The parse entry point *)

\* options.mode to FuncMode
FuncModeOf(m) ==
  IF m = "strict" THEN STRICT ELSE IF m = "strip" THEN STRIP ELSE PASS

NoOut == [kind |-> "none", same |-> FALSE, value |-> Undef, tree |-> NoTree]

\* Type.parse: what the call returns or throws.  same tells that the value
\* returned is the very reference passed in (r === true).
parse(type, v, m) ==
  LET r == Func(type, v, FuncModeOf(m)) IN
  IF r.code = "true"
  THEN [kind |-> "return", same |-> TRUE, value |-> v, tree |-> NoTree]
  ELSE IF r.code = "ok"
  THEN [kind |-> "return", same |-> FALSE, value |-> r.value, tree |-> NoTree]
  ELSE [kind |-> "throw", same |-> FALSE, value |-> Undef, tree |-> r]

\* the alternatives a parse by a union schema invokes, in order
parseCalls(type, v, m) ==
  IF type.name = "union" THEN UnionFunc(type, v, FuncModeOf(m)).calls ELSE <<>>

----------------------------------------------------------------------------
(* The schemas and the inputs of the model *)

MaxLen == 2

\* the key order of the input objects
KeyOrder == <<"k", "a", "b">>

litA == literal(Str("a"))
litB == literal(Str("b"))
pathZ == <<KeyS("z")>>

ObjA == object(<<"a">>, [a |-> number])
ObjAB == object(<<"a", "b">>, [a |-> number, b |-> number])
ObjBA == object(<<"b", "a">>, [a |-> number, b |-> number])
ObjOpt == object(<<"a", "b">>, [a |-> number, b |-> optional(string)])
ObjRest == rest(ObjA, string)
ObjRestInc == rest(ObjA, apply(number, "inc"))
ObjInc == object(<<"a">>, [a |-> apply(number, "inc")])
ObjEmpty == object(<<>>, <<>>)
ObjNest == object(<<"b", "a">>, [a |-> ObjEmpty, b |-> number])
ObjB == object(<<"b">>, [b |-> number])
ArrNum == array(number)
ArrInc == array(apply(number, "inc"))
Nested == object(<<"a">>, [a |-> array(ObjB)])
NestedErr ==
  object(<<"a">>,
         [a |-> array(assert(number, "isOne", ObjectError("one", pathZ)))])
AssertStr == assert(number, "isOne", StringError("must be one"))
AssertObj == object(<<"a">>, [a |-> assert(number, "isOne", ObjectError("string", <<>>))])
AssertNone == assert(string, "isA", NoError)
ChainOne == chain(number, "onlyOne")
UDisc ==
  union(<<object(<<"k", "a">>, [k |-> litA, a |-> number]),
          object(<<"k", "b">>, [k |-> litB, b |-> string])>>)
UDiscFn ==
  union(<<object(<<"k", "a">>, [k |-> litA, a |-> apply(number, "inc")]),
          object(<<"k", "a">>, [k |-> litB, a |-> assert(number, "isOne", NoError)])>>)
UAmb ==
  union(<<object(<<"k", "a">>, [k |-> litA, a |-> number]),
          object(<<"k", "b">>, [k |-> litA, b |-> string])>>)
UAmbSwap == union(<<UAmb.options[2], UAmb.options[1]>>)
UDisc2 ==
  union(<<object(<<"k", "a">>, [k |-> litA, a |-> literal(Num(1))]),
          object(<<"k", "a">>, [k |-> litB, a |-> literal(Num(2))])>>)
USingle == union(<<ObjA, string>>)
UOpt ==
  union(<<object(<<"k", "a">>, [k |-> optional(litA), a |-> number]),
          object(<<"k">>, [k |-> litB])>>)
ULitStr == union(<<apply(litA, "toL"), apply(string, "toS")>>)
UStrStr == union(<<AssertNone, apply(string, "toS")>>)
UUnknown ==
  union(<<unknown, object(<<"k">>, [k |-> litA]), object(<<"k">>, [k |-> litB])>>)
UPrim == union(<<number, litA, undefined_>>)
UNested == union(<<union(<<number, litB>>), null_, optional(ArrNum)>>)

Schemas ==
  <<ObjA, ObjAB, ObjBA, ObjOpt, ObjRest, ObjRestInc, ObjInc, ObjNest,
    ArrNum, ArrInc, Nested, NestedErr, AssertStr, AssertObj, AssertNone,
    ChainOne, UDisc, UDiscFn, UDisc2, UAmb, UAmbSwap, USingle, UOpt, ULitStr, UStrStr,
    UUnknown, UPrim, UNested>>

Atoms == {Num(1), Num(2), Str("a"), Str("b"), Undef}

ObjOf(g) ==
  LET ks == SelectSeq(KeyOrder, LAMBDA k : k \in DOMAIN g)
  IN Obj([i \in 1..Len(ks) |-> Entry(ks[i], g[ks[i]])])

\* the elements of the input arrays
Elements ==
  {Num(1), Num(2), ObjOf([b |-> Num(1)]), ObjOf([b |-> Str("a")])}

Arrays == {Arr(e) : e \in UNION {[1..n -> Elements] : n \in 0..MaxLen}}

\* the atoms the keys of the flat input objects hold
KeyValues ==
  [k |-> {Str("a"), Str("b"), Num(1)},
   a |-> {Num(1), Num(2), Str("a"), Undef},
   b |-> {Num(1), Str("a"), Undef}]

\* objects whose values are atoms
FlatObjects ==
  {ObjOf(g) : g \in UNION {{h \in [K -> Atoms] : \A key \in K : h[key] \in KeyValues[key]} :
                            K \in SUBSET {"k", "a", "b"}}}

\* objects whose key a holds an array or an object, with or without a key b
DeepObjects ==
  LET inner == Arrays \cup {ObjOf([k |-> Num(1)]), Obj(<<>>)}
  IN {ObjOf([a |-> x]) : x \in inner} \cup
     {ObjOf([a |-> x, b |-> y]) : x \in inner, y \in {Num(1), Str("a")}}

Inputs == Atoms \cup {Null} \cup Arrays \cup FlatObjects \cup DeepObjects

Modes == {"passthrough", "strict", "strip"}

----------------------------------------------------------------------------
(* The state machine: a schema, an input and a mode are chosen; parse is   *)
(* called; a returned value is parsed again; a thrown error is inspected   *)
(* (its issues, then its message).                                         *)

S == Schemas[sid]

Init ==
  /\ sid \in 1..Len(Schemas)
  /\ input \in Inputs
  /\ mode \in Modes
  /\ pc = "start"
  /\ out = NoOut
  /\ calls = <<>>
  /\ out2 = NoOut
  /\ issues = <<>>
  /\ message = <<>>
  /\ held = input

Parse ==
  /\ pc = "start"
  /\ out' = parse(S, input, mode)
  /\ calls' = parseCalls(S, input, mode)
  /\ held' = After(S, input, FuncModeOf(mode))
  /\ pc' = "parsed"
  /\ UNCHANGED <<sid, input, mode, out2, issues, message>>

Reparse ==
  /\ pc = "parsed"
  /\ out.kind = "return"
  /\ out2' = parse(S, out.value, mode)
  /\ pc' = "reparsed"
  /\ UNCHANGED <<sid, input, mode, out, calls, issues, message, held>>

Issues ==
  /\ pc = "parsed"
  /\ out.kind = "throw"
  /\ issues' = collectIssues(out.tree)
  /\ pc' = "issues"
  /\ UNCHANGED <<sid, input, mode, out, calls, out2, message, held>>

Message ==
  /\ pc = "issues"
  /\ message' = messageOf(issues)
  /\ pc' = "message"
  /\ UNCHANGED <<sid, input, mode, out, calls, out2, issues, held>>

Next == Parse \/ Reparse \/ Issues \/ Message

Spec == Init /\ [][Next]_vars

----------------------------------------------------------------------------
(* Vocabulary of the properties *)

FM == FuncModeOf(mode)

\* the keys of obj the shape of type does not declare
ExtraKeys(type, obj) == KeysOf(obj) \ knownKeys(type)

\* what the object function hands to the schema of a declared key
FieldValue(obj, key) == IF HasKey(obj, key) THEN Get(obj, key) ELSE Nothing

\* a declared key fails: it is required and missing, or its schema rejects it
KeyFails(type, obj, key, md) ==
  \/ ~HasKey(obj, key) /\ ~isOptional(type.shape[key])
  \/ ~IsOk(Func(type.shape[key], FieldValue(obj, key), md))

DeclaredValid(type, obj, md) ==
  \A key \in knownKeys(type) : ~KeyFails(type, obj, key, md)

\* the extra keys the rest schema rejects
RestFails(type, obj, md) ==
  IF hasRest(type)
  THEN {key \in ExtraKeys(type, obj) : ~IsOk(Func(type.restType, Get(obj, key), md))}
  ELSE {}

\* the key an issue of an object's error names
IssueKey(issue) ==
  IF Len(issue.path) > 0 THEN issue.path[1].s ELSE issue.key

ObjectCase == S.name = "object" /\ isObject(input)

----------------------------------------------------------------------------
(* C1 *)

\* C1: for an object schema, with or without a rest schema, and an input
\* object with a key outside the declared shape and every declared key
\* valid: strict mode throws unrecognized_key, strip mode returns an object
\* without any such key, passthrough mode returns an object that keeps them
\* all.
C1_ExtraKeysByMode ==
  (/\ pc = "parsed"
   /\ ObjectCase
   /\ ExtraKeys(S, input) # {}
   /\ DeclaredValid(S, input, FM))
  => /\ mode = "strict" =>
          out.kind = "throw" /\ out.tree.code = "unrecognized_key"
     /\ mode = "strip" =>
          out.kind = "return" /\ KeysOf(out.value) \cap ExtraKeys(S, input) = {}
     /\ mode = "passthrough" =>
          /\ out.kind = "return" => ExtraKeys(S, input) \subseteq KeysOf(out.value)
          /\ RestFails(S, input, FM) = {} => out.kind = "return"

----------------------------------------------------------------------------
(* C2 *)

FailingKeys(type, obj, md) ==
  {key \in knownKeys(type) : KeyFails(type, obj, key, md)} \cup RestFails(type, obj, md)

\* C2: in passthrough mode every failing declared key and every extra key
\* the rest schema rejects has an issue in the thrown error: the keys the
\* flattened issues name are exactly the failing keys.
C2_EveryFailureReported ==
  (pc = "issues" /\ ObjectCase /\ mode = "passthrough")
  => {IssueKey(issues[i]) : i \in 1..Len(issues)} = FailingKeys(S, input, FM)

----------------------------------------------------------------------------
(* C3 *)

\* a field or an element of the input was replaced by the value a schema
\* produced for it
Replaced(type, v, md) ==
  IF type.name = "object"
  THEN \/ \E key \in knownKeys(type) :
            Func(type.shape[key], FieldValue(v, key), md).code = "ok"
       \/ /\ hasRest(type)
          /\ md = PASS
          /\ \E key \in ExtraKeys(type, v) :
               Func(type.restType, Get(v, key), md).code = "ok"
  ELSE \E i \in 1..Len(v.e) : Func(type.item, v.e[i], md).code = "ok"

\* a key of the input is not in the output, or a key of the output was not
\* in the input
KeysChanged(v, w) == v.t = "object" /\ KeysOf(v) # KeysOf(w)

\* C3: in every mode, for object and array schemas with or without a rest
\* schema, a successful parse returns a new object or array only if a field
\* or element was replaced or a key was stripped or injected; otherwise it
\* returns the very reference passed in.
C3_NoCopyUnlessChanged ==
  (/\ pc = "parsed"
   /\ S.name \in {"object", "array"}
   /\ out.kind = "return"
   /\ ~out.same)
  => Replaced(S, input, FM) \/ KeysChanged(input, out.value)

----------------------------------------------------------------------------
(* C4 *)

\* a nesting of objects and arrays over primitives, optionals and
\* transforms: no union in it
RECURSIVE NoUnion(_)
NoUnion(type) ==
  CASE type.name = "union" -> FALSE
    [] type.name = "optional" -> NoUnion(type.type)
    [] type.name = "transform" -> NoUnion(type.transformed)
    [] type.name = "array" -> NoUnion(type.item)
    [] type.name = "object" ->
         /\ \A key \in knownKeys(type) : NoUnion(type.shape[key])
         /\ hasRest(type) => NoUnion(type.restType)
    [] OTHER -> TRUE

Unresolved == Val("unresolved", 0, "", <<>>, <<>>)

\* the sub-value of v the keys and indices of p lead to
RECURSIVE Resolve(_, _)
Resolve(v, p) ==
  IF Len(p) = 0 THEN v
  ELSE IF p[1].kt = "string" /\ v.t = "object" /\ HasKey(v, p[1].s)
  THEN Resolve(Get(v, p[1].s), Tail(p))
  ELSE IF p[1].kt = "number" /\ v.t = "array" /\ p[1].n < Len(v.e)
  THEN Resolve(v.e[p[1].n + 1], Tail(p))
  ELSE Unresolved

\* the schema that validates the sub-value at p
RECURSIVE SubSchema(_, _)
SubSchema(type, p) ==
  IF Len(p) = 0 THEN type
  ELSE CASE type.name = "transform" -> SubSchema(type.transformed, p)
         [] type.name = "optional" -> SubSchema(type.type, p)
         [] type.name = "array" -> SubSchema(type.item, Tail(p))
         [] type.name = "object" ->
              IF p[1].s \in knownKeys(type)
              THEN SubSchema(type.shape[p[1].s], Tail(p))
              ELSE SubSchema(type.restType, Tail(p))
         [] OTHER -> NoType

\* the path suffix an issue carries itself
OwnPath(issue) ==
  IF issue.code = "custom_error" /\ issue.error.kind = "object"
  THEN issue.error.path ELSE <<>>

\* the path of an issue without the suffix the issue carries
Location(issue) == SubSeq(issue.path, 1, Len(issue.path) - Len(OwnPath(issue)))

\* the issue is what the schema at its location says of the sub-value there
IssueAtLocation(issue) ==
  /\ Len(issue.path) >= Len(OwnPath(issue))
  /\ issue.path = Location(issue) \o OwnPath(issue)
  /\ Resolve(input, Location(issue)) # Unresolved
  /\ SubSchema(S, Location(issue)).name # "none"
  /\ [Func(SubSchema(S, Location(issue)), Resolve(input, Location(issue)), FM)
        EXCEPT !.path = issue.path] = issue

\* C4: for a nesting of object and array schemas, the path of every
\* flattened issue is the sequence of keys and indices, outermost first,
\* that leads from the root input to the sub-value that failed, followed by
\* the suffix the issue carries.
C4_PathsLeadToFailure ==
  (pc = "issues" /\ NoUnion(S))
  => \A i \in 1..Len(issues) : IssueAtLocation(issues[i])

\* an error with two issues under different indices of the array at key a:
\* one three steps deep, one that ends with the suffix its issue carries
C4_Witness ==
  /\ pc = "issues"
  /\ \/ /\ S = Nested
        /\ \E i, j \in 1..Len(issues) :
             /\ issues[i].path = <<KeyS("a"), KeyN(0), KeyS("b")>>
             /\ issues[j].path = <<KeyS("a"), KeyN(1)>>
     \/ /\ S = NestedErr
        /\ \E i, j \in 1..Len(issues) :
             /\ issues[i].path = <<KeyS("a"), KeyN(0)>>
             /\ issues[j].path = <<KeyS("a"), KeyN(1), KeyS("z")>>

----------------------------------------------------------------------------
(* C5 *)

\* the place of a key in the declaration order of an object schema
DeclIndex(type, key) == CHOOSE i \in 1..Len(type.keys) : type.keys[i] = key

\* C5: the issues of a thrown error are in validation order: the issues of
\* the declared keys of an object in declaration order, those of the
\* elements of an array in ascending index order; the message is that of the
\* first issue.
C5_IssuesInValidationOrder ==
  /\ (pc = "issues" /\ ObjectCase)
     => \A i, j \in 1..Len(issues) :
          (/\ i < j
           /\ IssueKey(issues[i]) \in knownKeys(S)
           /\ IssueKey(issues[j]) \in knownKeys(S))
          => DeclIndex(S, IssueKey(issues[i])) <= DeclIndex(S, IssueKey(issues[j]))
  /\ (pc = "issues" /\ S.name = "array" /\ input.t = "array")
     => \A i, j \in 1..Len(issues) :
          i < j => issues[i].path[1].n <= issues[j].path[1].n
  /\ pc = "message" => message = messageOf(collectIssues(out.tree))

----------------------------------------------------------------------------
(* C6 *)

\* every alternative of the union is an object whose schema at key is a
\* literal, and no two alternatives have the same literal there
LiteralDiscriminant(type, key) ==
  /\ type.name = "union"
  /\ \A i \in 1..Len(type.options) :
       /\ type.options[i].name = "object"
       /\ key \in knownKeys(type.options[i])
       /\ type.options[i].shape[key].name = "literal"
  /\ \A i, j \in 1..Len(type.options) :
       i # j => type.options[i].shape[key].value # type.options[j].shape[key].value

\* the key the union dispatches on, "" when it has none
DispatchKey(type) ==
  IF type.name = "union" /\ Len(createObjectMatchers(flattened(type))) > 0
  THEN createObjectMatchers(flattened(type))[1].key
  ELSE ""

\* the first key, in the order the first alternative declares its keys, that
\* every alternative of the union declares; "" when there is none
FirstCommonKey(type) ==
  IF /\ type.name = "union"
     /\ \A i \in 1..Len(type.options) : type.options[i].name = "object"
     /\ \E n \in 1..Len(type.options[1].keys) :
          \A i \in 1..Len(type.options) :
            type.options[1].keys[n] \in knownKeys(type.options[i])
  THEN type.options[1].keys[
         CHOOSE n \in 1..Len(type.options[1].keys) :
           /\ \A i \in 1..Len(type.options) :
                type.options[1].keys[n] \in knownKeys(type.options[i])
           /\ \A m \in 1..(n - 1) : \E i \in 1..Len(type.options) :
                type.options[1].keys[m] \notin knownKeys(type.options[i])]
  ELSE ""

\* C6: for a union of objects whose first common key holds pairwise distinct
\* literals (so that it is the discriminant selected), an input object whose
\* value at that key is the literal of alternative i has the function of
\* alternative i invoked, and no other; the result of the union is the
\* result of alternative i.
C6_OnlyTheSelectedAlternative ==
  (/\ pc = "parsed"
   /\ FirstCommonKey(S) # ""
   /\ LiteralDiscriminant(S, FirstCommonKey(S))
   /\ isObject(input)
   /\ HasKey(input, FirstCommonKey(S)))
  => \A i \in 1..Len(S.options) :
       S.options[i].shape[FirstCommonKey(S)].value = Get(input, FirstCommonKey(S))
       => calls = <<i>> /\ out = parse(S.options[i], input, mode)

\* the second alternative is selected and validated (it rejects the input),
\* although the first alternative's literal at another key matches
C6_Witness ==
  /\ pc = "parsed"
  /\ S = UDisc2
  /\ isObject(input)
  /\ Get(input, "k") = Str("b")
  /\ Get(input, "a") = Num(1)
  /\ calls = <<2>>
  /\ out.kind = "throw"

----------------------------------------------------------------------------
(* C7 *)

\* a union of two objects with exactly one common key, at which both have
\* the same literal
AmbiguousPair(type) ==
  /\ type.name = "union"
  /\ Len(type.options) = 2
  /\ type.options[1].name = "object"
  /\ type.options[2].name = "object"
  /\ \E key \in knownKeys(type.options[1]) :
       /\ knownKeys(type.options[1]) \cap knownKeys(type.options[2]) = {key}
       /\ type.options[1].shape[key].name = "literal"
       /\ type.options[2].shape[key] = type.options[1].shape[key]

Accepts(type, v, md) == IsOk(Func(type, v, md))

\* every issue of the tree sub is an issue of the tree whole
ContainsIssues(whole, sub) ==
  \A i \in 1..Len(collectIssues(sub)) :
    \E j \in 1..Len(collectIssues(whole)) :
      collectIssues(whole)[j] = collectIssues(sub)[i]

WrapsBoth ==
  /\ issues[1].code = "invalid_union"
  /\ ContainsIssues(issues[1].tree, Func(S.options[1], input, FM))
  /\ ContainsIssues(issues[1].tree, Func(S.options[2], input, FM))

\* exactly one of the two alternatives accepts: its result is the union's
OneWins ==
  /\ (Accepts(S.options[1], input, FM) /\ ~Accepts(S.options[2], input, FM))
     => out = parse(S.options[1], input, mode)
  /\ (Accepts(S.options[2], input, FM) /\ ~Accepts(S.options[1], input, FM))
     => out = parse(S.options[2], input, mode)

\* the union found its discriminant key absent from the input object
AbsentKeyCase ==
  DispatchKey(S) # "" /\ isObject(input) /\ ~HasKey(input, DispatchKey(S))

\* a matcher tried exactly one alternative and it failed: its issue tree is
\* the union's, unwrapped
SingleSurfaced ==
  (/\ pc = "parsed"
   /\ S.name = "union"
   /\ ~AbsentKeyCase
   /\ Len(calls) = 1
   /\ out.kind = "throw")
  => out.tree = Func(S.options[calls[1]], input, FM)

\* C7 as stated: on every input both alternatives of an ambiguous pair
\* reject, the first issue is invalid_union and wraps the issues of both; an
\* input exactly one accepts is parsed to that alternative's result; a single
\* alternative that fails has its issue surfaced unwrapped.
C7_AsStated ==
  /\ (pc = "issues" /\ AmbiguousPair(S)
      /\ ~Accepts(S.options[1], input, FM) /\ ~Accepts(S.options[2], input, FM))
     => WrapsBoth
  /\ (pc = "parsed" /\ AmbiguousPair(S)) => OneWins
  /\ SingleSurfaced

\* C7 amended: as stated, for the input objects: an input that is not an
\* object is refused with invalid_type before any alternative is tried.
C7_ObjectInputsWrapped ==
  /\ (pc = "issues" /\ AmbiguousPair(S) /\ isObject(input)
      /\ ~Accepts(S.options[1], input, FM) /\ ~Accepts(S.options[2], input, FM))
     => WrapsBoth
  /\ (pc = "issues" /\ AmbiguousPair(S) /\ ~isObject(input))
     => issues = <<invalid_type(<<"object">>, <<>>)>> /\ calls = <<>>
  /\ (pc = "parsed" /\ AmbiguousPair(S)) => OneWins
  /\ SingleSurfaced

\* both alternatives of the pair were tried on an object and failed
C7_Witness ==
  /\ pc = "issues"
  /\ S = UAmbSwap
  /\ isObject(input)
  /\ calls = <<1, 2>>
  /\ issues[1].code = "invalid_union"

----------------------------------------------------------------------------
(* C8 *)

\* the schema has an apply or a chain, whose function may change the value
RECURSIVE ChangesValues(_)
ChangesValues(type) ==
  CASE type.name = "transform" ->
         type.kind # "assert" \/ ChangesValues(type.transformed)
    [] type.name = "optional" -> ChangesValues(type.type)
    [] type.name = "array" -> ChangesValues(type.item)
    [] type.name = "union" ->
         \E i \in 1..Len(type.options) : ChangesValues(type.options[i])
    [] type.name = "object" ->
         \/ \E key \in knownKeys(type) : ChangesValues(type.shape[key])
         \/ hasRest(type) /\ ChangesValues(type.restType)
    [] OTHER -> FALSE

\* deep equality: objects have the same keys with deeply equal values,
\* whatever the order of the keys
RECURSIVE DeepEqual(_, _)
DeepEqual(v, w) ==
  /\ v.t = w.t
  /\ v.n = w.n
  /\ v.s = w.s
  /\ Len(v.e) = Len(w.e)
  /\ \A i \in 1..Len(v.e) : DeepEqual(v.e[i], w.e[i])
  /\ KeysOf(v) = KeysOf(w)
  /\ \A key \in KeysOf(v) : DeepEqual(Get(v, key), Get(w, key))

\* C8: parsing is idempotent: when parse(S, V) succeeds, parse(S, parse(S, V))
\* succeeds and is deeply equal to parse(S, V).  The schemas it is stated for
\* here are those whose only callbacks are the predicates of assert.
C8_Idempotent ==
  (pc = "reparsed" /\ ~ChangesValues(S))
  => out2.kind = "return" /\ DeepEqual(out2.value, out.value)

----------------------------------------------------------------------------
(* C9 *)

\* the alternatives whose schema at key allows the key to be absent
Tolerant(type, key) ==
  {i \in 1..Len(type.options) :
     /\ type.options[i].name = "object"
     /\ key \in knownKeys(type.options[i])
     /\ isOptional(type.options[i].shape[key])}

\* C9: when a union dispatches on a key that exactly one alternative allows
\* to be absent, an input object without the key is validated as a whole
\* against that alternative: the union's result is that alternative's.
\* missing_key is reported for the key only when no alternative allows its
\* absence.
C9_AbsentKeyGoesToTolerant ==
  (pc = "parsed" /\ AbsentKeyCase)
  => /\ \A i \in Tolerant(S, DispatchKey(S)) :
          Tolerant(S, DispatchKey(S)) = {i}
          => out = parse(S.options[i], input, mode)
     /\ (out.kind = "throw" /\ out.tree = missing_key(DispatchKey(S)))
        => Tolerant(S, DispatchKey(S)) = {}

----------------------------------------------------------------------------
(* C10 *)

\* the alternatives with a terminal for the value: its base type, or a
\* literal equal to it
Candidates(type, v) ==
  {i \in 1..Len(type.options) :
     \E j \in 1..Len(toTerminals(type.options[i])) :
       \/ toTerminals(type.options[i])[j].name = toBaseType(v)
       \/ /\ toTerminals(type.options[i])[j].name = "literal"
          /\ toTerminals(type.options[i])[j].value = v}

Accepting(type, v, md) ==
  {i \in 1..Len(type.options) : Accepts(type.options[i], v, md)}

Earliest(set) == CHOOSE i \in set : \A j \in set : i <= j

\* C10: when several alternatives of a union are candidates for a value, a
\* literal and an alternative of the same base type among them, they are
\* tried in declaration order up to the first that succeeds; the result of
\* the union is that of the earliest declared alternative that accepts.
C10_DeclarationOrder ==
  (/\ pc = "parsed"
   /\ S.name = "union"
   /\ DispatchKey(S) = ""
   /\ Cardinality(Candidates(S, input)) > 1)
  => /\ \A i, j \in 1..Len(calls) : i < j => calls[i] < calls[j]
     /\ \A i \in 1..(Len(calls) - 1) : ~Accepts(S.options[calls[i]], input, FM)
     /\ Accepting(S, input, FM) \cap Candidates(S, input) # {}
        => out = parse(S.options[Earliest(Accepting(S, input, FM)
                                          \cap Candidates(S, input))],
                       input, mode)

----------------------------------------------------------------------------
(* C11 *)

\* C11: in every mode and for every input, a union accepts the input exactly
\* when at least one of its declared alternatives accepts it on its own.
C11_UnionAcceptsWhatSomeAlternativeAccepts ==
  (pc = "parsed" /\ S.name = "union")
  => (out.kind = "return" <=> Accepting(S, input, FM) # {})

----------------------------------------------------------------------------
(* C12 *)

\* the sentinel is a property or element of v, at any depth
RECURSIVE HoldsNothing(_)
HoldsNothing(v) ==
  \/ \E i \in 1..Len(v.o) : v.o[i].v = Nothing \/ HoldsNothing(v.o[i].v)
  \/ \E i \in 1..Len(v.e) : v.e[i] = Nothing \/ HoldsNothing(v.e[i])

\* no schema built by assert, apply or chain anywhere in type
RECURSIVE TransformFree(_)
TransformFree(type) ==
  CASE type.name = "transform" -> FALSE
    [] type.name = "optional" -> TransformFree(type.type)
    [] type.name = "array" -> TransformFree(type.item)
    [] type.name = "union" ->
         \A i \in 1..Len(type.options) : TransformFree(type.options[i])
    [] type.name = "object" ->
         /\ \A k \in knownKeys(type) : TransformFree(type.shape[k])
         /\ hasRest(type) => TransformFree(type.restType)
    [] OTHER -> TRUE

\* C12: for a transform-free object schema, in every mode, the value parse
\* returns for an accepted input holds the missing-key sentinel nowhere: not
\* as the value of an absent optional key, nor of any other property.
C12_NoSentinelInOutput ==
  (/\ pc = "parsed"
   /\ S.name = "object"
   /\ TransformFree(S)
   /\ out.kind = "return")
  => ~HoldsNothing(out.value) /\ out.value # Nothing

----------------------------------------------------------------------------
(* C13 *)

\* C13: for every schema, mode and input, once parse has returned or
\* thrown, the input and every object and array nested in it have the keys,
\* elements and values they had before the call.
C13_InputUnchanged == pc # "start" => held = input

\* parse has written a transformed rest value, or a transformed element of
\* a two-element array, to its output, and the caller's object or array is
\* as it was
C13_Witness ==
  /\ pc = "parsed"
  /\ \/ /\ S = ObjRestInc
        /\ out.kind = "return"
        /\ ~out.same
        /\ \E key \in KeysOf(input) : Get(out.value, key) # Get(input, key)
     \/ /\ S = ArrInc
        /\ out.kind = "return"
        /\ ~out.same
        /\ Len(input.e) = 2
  /\ held = input

----------------------------------------------------------------------------
(* C14 *)

\* the message the user supplied with a custom error, <<>> when none
Supplied(error) ==
  IF error.kind = "string" \/ (error.kind = "object" /\ error.hasMessage)
  THEN <<error.message>>
  ELSE <<>>

\* C14: when the first issue of a thrown error is a custom_error, the
\* description of the error's message is the message the user supplied, as
\* a string or as the message of an object, and "validation failed" only
\* when none was supplied.
C14_CustomMessageShown ==
  (pc = "message" /\ issues[1].code = "custom_error")
  => message.description =
       IF Supplied(issues[1].error) # <<>> THEN Supplied(issues[1].error)
       ELSE <<"validation failed">>

====
